---- MODULE Spec2Model ----
(***************************************************************************)
(* The bugbot broker (Server: job store, ETag / If-Match protocol, JSON     *)
(* patch with a per-operation validator, filter) and the runner            *)
(* (Runner: timer-driven poll / claim / run / report loop).                *)
(*                                                                         *)
(* JavaScript values are tagged records, so that values of different       *)
(* shapes can be compared:  undefined, strings, job ids, runner uuids,     *)
(* Current and Result objects, arrays.                                     *)
(***************************************************************************)
EXTENDS Integers, Sequences, FiniteSets, TLC

\* ------------------------------------------------------------------ bounds
NumJobs == 1
NumRunners == 2
NumClients == 2
MaxTicks == 2
MaxTime == 2

JobIds == 1..NumJobs
Runners == 1..NumRunners
Clients == 1..NumClients
Slots == 1..MaxTicks
Times == 0..MaxTime

\* ------------------------------------------------------------------ values
Undef == [k |-> "undefined"]
Str(s) == [k |-> "string", s |-> s]
IdOf(n) == [k |-> "id", n |-> n]
UuidOf(r) == [k |-> "uuid", n |-> r]
Num(n) == [k |-> "number", n |-> n]
Arr(items) == [k |-> "array", items |-> items]
IsArray(v) == v.k = "array"
\* typeof v === 'object' && v !== null
IsObject(v) == v.k \in {"array", "Current", "Result"}

\* interfaces.Current as built in Runner.poll
Current(runner, time_begun) ==
    [k |-> "Current", runner |-> runner, time_begun |-> time_begun]

Platforms == {"darwin", "win32"}

\* ------------------------------------------------------------------ Task
\* The fields of a Task object that the modelled operations read or write;
\* bisect_range and gist are set at creation and only handed to the child.
TaskFields ==
    {"id", "type", "platform", "current", "last", "history",
     "bot_client_data", "etag"}
\* Task.publicSubset(): the record without the broker's bookkeeping.
PublicFields == TaskFields \ {"etag"}
publicSubset(task) == [f \in PublicFields |-> task[f]]

\* etag(JSON.stringify(publicSubset)): a hash of the serialised body, taken
\* to be collision free, so the tag is the body it was computed from.
create_etag(body) == [k |-> "etag", of |-> body]
getTaskBody(task) ==
    [body |-> publicSubset(task), etag |-> create_etag(publicSubset(task))]

\* Task.createBisectTask: a fresh bisect task; the etag field is not set
\* until the first GET.
createBisectTask(id, platform) ==
    [f \in TaskFields |->
        CASE f = "id" -> IdOf(id)
          [] f = "type" -> Str("bisect")
          [] f = "platform" -> platform
          [] f = "history" -> Arr(<<>>)
          [] OTHER -> Undef]

\* ------------------------------------------------------------ JSON patch
\* A fast-json-patch Operation.  path and from are the keys of the JSON
\* pointer: "/bot_client_data" is <<"bot_client_data">>, "/history/-" is
\* <<"history", "-">>.
Operation(op, path, from, value) ==
    [op |-> op, path |-> path, from |-> from, value |-> value]
NoKeys == <<>>

MutatingOps == {"add", "copy", "move", "remove", "replace"}

\* Task.canSet(prop, value): the patch authorization policy.  `settable` is
\* the set of top-level fields the policy lets a patch write.
canSet(settable, prop, value) == prop \in settable

\* The validator callback Server.patchJob hands to applyPatch: TRUE when the
\* operation may proceed, FALSE when the callback throws.  Only op.path is
\* looked at; the `from` of a move or copy is not.
validateOperation(settable, operation) ==
    IF operation.op \notin MutatingOps
    THEN TRUE
    ELSE LET prop == operation.path[1]
             \* (op as any).value || undefined
             value == operation.value
         IN canSet(settable, prop, value)

\* jsonpatch.applyOperation on the task object, after validation:
\* [task |-> the task as mutated, ok |-> FALSE when the library throws].
\* A two-key path walks into task[path[1]], which must be an object
\* (OPERATION_PATH_UNRESOLVABLE otherwise); the key "-" of an array is its
\* length, so add appends.
applyOperation(task, operation) ==
    LET key == operation.path[1]
        Done(t) == [task |-> t, ok |-> TRUE]
        Throw == [task |-> task, ok |-> FALSE]
    IN IF Len(operation.path) = 2
       THEN IF IsArray(task[key]) /\ operation.op = "add"
            THEN Done([task EXCEPT ![key] =
                          Arr(Append(task[key].items, operation.value))])
            ELSE Throw
       ELSE CASE operation.op \in {"add", "replace"} ->
                    Done([task EXCEPT ![key] = operation.value])
              [] operation.op = "remove" ->
                    Done([task EXCEPT ![key] = Undef])
              [] operation.op = "move" ->
                    LET from == operation.from[1]
                        originalValue == task[from]
                    IN Done([[task EXCEPT ![from] = Undef]
                                   EXCEPT ![key] = originalValue])
              [] operation.op = "copy" ->
                    Done([task EXCEPT ![key] = task[operation.from[1]]])
              [] operation.op = "test" ->
                    IF task[key] = operation.value THEN Done(task) ELSE Throw

\* jsonpatch.applyPatch(task, patch, validator): the operations are
\* validated and applied one after the other to the task object itself; the
\* first one that throws ends the call and leaves what earlier operations
\* did.
RECURSIVE applyPatch(_, _, _)
applyPatch(settable, task, patch) ==
    IF patch = <<>>
    THEN [task |-> task, ok |-> TRUE]
    ELSE IF ~validateOperation(settable, Head(patch))
         THEN [task |-> task, ok |-> FALSE]
         ELSE LET r == applyOperation(task, Head(patch))
              IN IF r.ok
                 THEN applyPatch(settable, r.task, Tail(patch))
                 ELSE r

\* ---------------------------------------------------------------- Server
\* An HTTP response: status, body, the ETag header.
Response(status, body, etag) == [status |-> status, body |-> body, etag |-> etag]
NoHeader == Undef

\* Server.getJob on a task: the response, and the task with its etag stored.
getJob(task) ==
    LET b == getTaskBody(task)
    IN [task |-> [task EXCEPT !["etag"] = b.etag],
        resp |-> Response(200, b.body, b.etag)]

\* Server.patchJob on a task: If-Match is compared with the etag stored on
\* the task (by the last GET); the patch is applied to the task in place;
\* the new ETag goes to the response only.
patchJob(settable, task, if_etag, patch) ==
    IF if_etag # NoHeader /\ if_etag # task["etag"]
    THEN [task |-> task, resp |-> Response(412, Undef, NoHeader)]
    ELSE LET r == applyPatch(settable, task, patch)
         IN IF r.ok
            THEN [task |-> r.task,
                  resp |-> Response(200, Undef, getTaskBody(r.task).etag)]
            ELSE [task |-> r.task, resp |-> Response(400, Undef, NoHeader)]

\* Response to a job-scoped request for an id the broker does not hold.
NotFound == Response(404, Undef, NoHeader)

\* ---------------------------------------------------------------- filter
\* A query string is a sequence of atoms: names and the separators the
\* filter splits on.  "current.runner" is <<"current", ".", "runner">>,
\* "platform!" is <<"platform", "!">>, "darwin,undefined" is
\* <<"darwin", ",", "undefined">>.
RECURSIVE split(_, _)
split(str, separator) ==
    IF \A i \in 1..Len(str) : str[i] # separator
    THEN <<str>>
    ELSE LET at == CHOOSE i \in 1..Len(str) :
                      /\ str[i] = separator
                      /\ \A h \in 1..(i - 1) : str[h] # separator
         IN <<SubSeq(str, 1, at - 1)>>
              \o split(SubSeq(str, at + 1, Len(str)), separator)

\* key.endsWith('!')
endsWith(str, atom) == Len(str) > 0 /\ str[Len(str)] = atom

\* The string a piece of a split query string is: '' for the empty piece.
pieceString(v) == IF v = <<>> THEN "" ELSE v[1]

\* v == value for a query alternative v (a string) and a resolved value:
\* a string is compared as a string, undefined has become 'undefined'
\* before the comparison, and a name equals no object.
looseEquals(v, value) ==
    /\ Len(v) <= 1
    /\ \/ value.k = "string" /\ value.s = pieceString(v)
       \/ value.k = "undefined" /\ pieceString(v) = "undefined"

\* value?.[walk]: a property of an object, undefined below anything else.
walkInto(value, walk) ==
    IF value.k \in {"Current", "Result"} /\ walk \in DOMAIN value /\ walk # "k"
    THEN value[walk]
    ELSE Undef

\* The walk from a task body: for (const walk of names) value = value?.[walk]
RECURSIVE walkNames(_, _, _)
walkNames(value, names, top) ==
    IF names = <<>>
    THEN value
    ELSE LET walk == Head(names)
             next == IF top
                     THEN IF Len(walk) = 1 /\ walk[1] \in DOMAIN value
                          THEN value[walk[1]]
                          ELSE Undef
                     ELSE IF Len(walk) = 1
                          THEN walkInto(value, walk[1])
                          ELSE Undef
         IN walkNames(next, Tail(names), FALSE)

\* A pass that, for a negated key, keeps a candidate that differs from some
\* alternative.
filterEntry_NegateAny(filtered, entry) ==
    LET negate == endsWith(entry.key, "!")
        key == IF negate
               THEN SubSeq(entry.key, 1, Len(entry.key) - 1)
               ELSE entry.key
        names == split(key, ".")
        all == split(entry.value, ",")
        NonEmpty(v) == v # <<>>
        values == SelectSeq(all, NonEmpty)
        Pass(candidate) ==
            LET value == walkNames(candidate, names, TRUE)
            IN IF negate
               THEN \E i \in 1..Len(values) : ~looseEquals(values[i], value)
               ELSE \E i \in 1..Len(values) : looseEquals(values[i], value)
    IN SelectSeq(filtered, Pass)

\* One pass of Server.filter: the candidates that the entry keeps.
filterEntry(filtered, entry) ==
    LET negate == endsWith(entry.key, "!")
        key == IF negate
               THEN SubSeq(entry.key, 1, Len(entry.key) - 1)
               ELSE entry.key
        names == split(key, ".")
        all == split(entry.value, ",")
        \* .filter((v) => Boolean(v)): empty alternatives are dropped
        NonEmpty(v) == v # <<>>
        values == SelectSeq(all, NonEmpty)
        Pass(candidate) ==
            LET value == walkNames(candidate, names, TRUE)
                matched == \E i \in 1..Len(values) : looseEquals(values[i], value)
            IN IF negate THEN ~matched ELSE matched
    IN SelectSeq(filtered, Pass)

\* A filter that stops after the first entry of the query.
filter_FirstKeyOnly(beginning_set, query) ==
    IF query = <<>>
    THEN beginning_set
    ELSE filterEntry(beginning_set, Head(query))

\* Server.filter(beginning_set, query): the entries narrow one after the
\* other, in the order of the query.
RECURSIVE filter(_, _)
filter(beginning_set, query) ==
    IF query = <<>>
    THEN beginning_set
    ELSE filter(filterEntry(beginning_set, Head(query)), Tail(query))

QueryEntry(key, value) == [key |-> key, value |-> value]

\* Server.getJobs on the broker's tasks (in insertion order): the ids of
\* the public subsets that pass the filter.
getJobs(tasklist, query) ==
    LET bodies == [i \in 1..Len(tasklist) |-> publicSubset(tasklist[i])]
        kept == filter(bodies, query)
    IN [i \in 1..Len(kept) |-> kept[i]["id"]]

\* Runner.fetchAvailableJobs: the query a runner of this platform sends.
availableJobsQuery(platform) ==
    << QueryEntry(<<"platform">>, <<platform, ",", "undefined">>),
       QueryEntry(<<"current", ".", "runner">>, <<"undefined">>),
       QueryEntry(<<"last", ".", "status">>, <<"undefined">>),
       QueryEntry(<<"type">>, <<"bisect">>) >>

\* ---------------------------------------------------------------- Runner
\* The platform each runner is configured with.
platform(r) == IF r = 1 THEN "darwin" ELSE "win32"
uuid(r) == UuidOf(r)

\* A Result as Runner.patchResult builds it: Object.assign(defaults, result)
Result(runner, status, time_begun, time_ended, error, bisect_range) ==
    [k |-> "Result", runner |-> runner, status |-> status,
     time_begun |-> time_begun, time_ended |-> time_ended,
     error |-> error, bisect_range |-> bisect_range]

\* What a child run ends with: what parseFiddleBisectOutput makes of the
\* output (a narrowed range, no range, or an exception) and the exit code
\* (null when the child was killed).
Range(good, bad) == [k |-> "BisectRange", good |-> good, bad |-> bad]
ParseOutcomes == {"success", "failure", "throws"}
ExitCodes == {Num(0), Num(1), Undef}
ChildOutcomes == [parse : ParseOutcomes, exitCode : ExitCodes]

\* The 'close' handler of Runner.runBisect: the partial Result it hands to
\* patchResult.
closeResult(outcome) ==
    CASE outcome.parse = "success" ->
            [status |-> Str("success"), error |-> Undef,
             bisect_range |-> Range("goodVersion", "badVersion")]
      [] outcome.parse = "failure" ->
            [status |-> IF outcome.exitCode = Num(1)
                        THEN Str("test_error")
                        ELSE Str("system_error"),
             error |-> Str("Failed to narrow test down to two versions"),
             bisect_range |-> Undef]
      [] outcome.parse = "throws" ->
            [status |-> Str("system_error"), error |-> Str("parseErr"),
             bisect_range |-> Undef]

\* The patch Runner.poll claims a job with.
claimPatch(runner, time_begun) ==
    << Operation("replace", <<"current">>, NoKeys, Current(runner, time_begun)) >>

\* A report that leaves /current in place.
resultPatch_KeepsCurrent(result) ==
    << Operation("add", <<"history", "-">>, NoKeys, result),
       Operation("replace", <<"last">>, NoKeys, result) >>

\* The patch Runner.patchResult reports a Result with.
resultPatch(result) ==
    << Operation("add", <<"history", "-">>, NoKeys, result),
       Operation("replace", <<"last">>, NoKeys, result),
       Operation("remove", <<"current">>, NoKeys, Undef) >>

\* The request Runner.patchJob sends: the url is built from this.jobId and
\* the runner's etag travels in a header named etag.
patchRequest(jobId, etag, patches) ==
    [id |-> jobId, header |-> [name |-> "etag", value |-> etag],
     patch |-> patches]

\* req.header(name) on a request that carries one header.
header(req, name) ==
    IF req.header.name = name THEN req.header.value ELSE NoHeader

\* ----------------------------------------------------------------- state
VARIABLES
    tasks,      \* Broker: the tasks in insertion order; task i has map key i
    settable,   \* Task.canSet: the fields the policy lets a patch write
    now,        \* Date.now(): the clock
    interval,   \* Runner.interval: whether the runner's timer is armed
    fields,     \* Runner.etag, Runner.jobId, Runner.timeBegun of each runner
    ticks,      \* the poll() calls of each runner that have not returned
    client,     \* what each API client holds from its last response
    logs,       \* Task.logText: the chunks appended to each job's log
    inflight,   \* the runner's requests no poll() call awaits
    child       \* the child process of each poll() call

vars == <<tasks, settable, now, interval, fields, ticks, client,
          logs, inflight, child>>

\* The two readings of Patch Authorization: only bot_client_data may be
\* patched, or also the fields the runner's own patches write.
Policies ==
    { {"bot_client_data"},
      {"bot_client_data", "current", "last", "history"} }

NoFields == [etag |-> Undef, jobId |-> Undef, timeBegun |-> Undef]

\* A child process: whether it has emitted 'error', and how many chunks it
\* has written to each stream.
NoChild == [error |-> FALSE, stdout |-> 0, stderr |-> 0]
Idle == [pc |-> "idle", io |-> "none", job |-> Undef, msg |-> Undef,
         claimed |-> Undef]

\* What an API client holds: the job of its last job-scoped request or the
\* query of its last list request, the ETag it was given for the job, the
\* status and (for a list) the body of its last response.
Held(job, query, etag, status, body) ==
    [job |-> job, query |-> query, etag |-> etag, status |-> status,
     body |-> body]
Query(entries) == [k |-> "query", entries |-> entries]
NoResponse == Held(0, Undef, Undef, 0, Undef)

Init ==
    /\ tasks = <<>>
    /\ settable \in Policies
    /\ now = 0
    /\ interval = [r \in Runners |-> FALSE]
    /\ fields = [r \in Runners |-> NoFields]
    /\ ticks = [r \in Runners |-> [s \in Slots |-> Idle]]
    /\ client = [c \in Clients |-> NoResponse]
    /\ logs = [j \in JobIds |-> <<>>]
    /\ inflight = {}
    /\ child = [r \in Runners |-> [s \in Slots |-> NoChild]]

\* broker.getTask(id): the index of the task an id in a url names, 0 if none.
getTask(id) ==
    IF id.k = "id" /\ id.n \in 1..Len(tasks) THEN id.n ELSE 0

\* ----------------------------------------------------------- API clients
\* POST /api/jobs: Server.postJob adds a bisect task.
\* Job platforms are drawn from none and win32.
JobPlatforms == {Undef, Str("win32")}
PostJob(p) ==
    /\ Len(tasks) < NumJobs
    /\ tasks' = Append(tasks, createBisectTask(Len(tasks) + 1, p))
    /\ UNCHANGED <<settable, now, interval, fields, ticks, client, logs, inflight, child>>

\* GET /api/jobs/<j> from an API client, which keeps the ETag.
ClientGet(c, j) ==
    /\ IF getTask(IdOf(j)) = 0
       THEN /\ client' = [client EXCEPT ![c] = Held(j, Undef, Undef, 404, Undef)]
            /\ UNCHANGED tasks
       ELSE LET r == getJob(tasks[j])
            IN /\ tasks' = [tasks EXCEPT ![j] = r.task]
               /\ client' = [client EXCEPT ![c] =
                               Held(j, Undef, r.resp.etag, 200, Undef)]
    /\ UNCHANGED <<settable, now, interval, fields, ticks, logs, inflight, child>>

\* The operations API clients send.
ClientValue == Str("v1")
addData == Operation("add", <<"bot_client_data">>, NoKeys, ClientValue)
removeData == Operation("remove", <<"bot_client_data">>, NoKeys, Undef)
testData == Operation("test", <<"bot_client_data">>, NoKeys, ClientValue)
replaceId == Operation("replace", <<"id">>, NoKeys, ClientValue)
removeCurrent == Operation("remove", <<"current">>, NoKeys, Undef)
moveId == Operation("move", <<"bot_client_data">>, <<"id">>, Undef)
copyId == Operation("copy", <<"bot_client_data">>, <<"id">>, Undef)
moveCurrent == Operation("move", <<"bot_client_data">>, <<"current">>, Undef)
moveHistory == Operation("move", <<"bot_client_data">>, <<"history">>, Undef)
ClientPatches ==
    { <<addData>>, <<removeData>>, <<testData, removeData>>, <<replaceId>>,
      <<addData, replaceId>>, <<replaceId, addData>>, <<removeCurrent>>,
      <<moveId>>, <<copyId>>, <<moveCurrent>> }

\* The If-Match an API client can send for job j: none, or the ETag it holds.
ClientIfMatch(c, j) ==
    {NoHeader} \cup (IF client[c].job = j THEN {client[c].etag} ELSE {})

\* PATCH /api/jobs/<j> from an API client.
ClientPatch(c, j, if_etag, patch) ==
    /\ if_etag \in ClientIfMatch(c, j)
    /\ IF getTask(IdOf(j)) = 0
       THEN /\ client' = [client EXCEPT ![c] = Held(j, Undef, Undef, 404, Undef)]
            /\ UNCHANGED tasks
       ELSE LET r == patchJob(settable, tasks[j], if_etag, patch)
            IN /\ tasks' = [tasks EXCEPT ![j] = r.task]
               /\ client' = [client EXCEPT ![c] =
                    Held(j, Undef,
                         IF r.resp.status = 200
                         THEN r.resp.etag
                         ELSE IF client[c].job = j THEN client[c].etag
                              ELSE Undef,
                         r.resp.status, Undef)]
    /\ UNCHANGED <<settable, now, interval, fields, ticks, logs, inflight, child>>

\* ---------------------------------------------------------------- runner
\* A poll() call between two of its awaits: where it waits (pc), whether
\* its request or the response to it is under way (io), its local `job`,
\* the request or response (msg); and, kept for the properties, the claim
\* it sent (claimed: the job id and the time_begun of its claim patch).
Tick(pc, io, job, msg, claimed) ==
    [pc |-> pc, io |-> io, job |-> job, msg |-> msg, claimed |-> claimed]

SetTick(r, s, t) == ticks' = [ticks EXCEPT ![r][s] = t]

\* A poll() call that throws and is left hanging.
EndTick_Stuck(r, s) ==
    SetTick(r, s, [ticks[r][s] EXCEPT !.pc = "pending", !.io = "none"])

\* A poll() call ends (returns or throws into pollSafely's catch).
EndTick(r, s) == SetTick(r, s, Idle)

\* The slot a new poll() call of runner r takes.
FreeSlot(r, s) ==
    /\ ticks[r][s].pc = "idle"
    /\ \A h \in Slots : h < s => ticks[r][h].pc # "idle"

\* Runner.pollSafely -> Runner.poll up to its first await: the list request
\* of fetchAvailableJobs is sent.
pollSafely(r, s) ==
    SetTick(r, s, Tick("fetchAvailableJobs", "request", Undef,
                       [query |-> availableJobsQuery(platform(r))], Undef))

\* Runner.start(): arms the interval timer and polls at once.
Start(r, s) ==
    /\ ~interval[r]
    /\ FreeSlot(r, s)
    /\ interval' = [interval EXCEPT ![r] = TRUE]
    /\ pollSafely(r, s)
    /\ UNCHANGED <<tasks, settable, now, fields, client, logs, inflight, child>>

\* The interval timer fires: setInterval calls pollSafely whatever earlier
\* poll() calls are doing.
TimerFires(r, s) ==
    /\ interval[r]
    /\ FreeSlot(r, s)
    /\ pollSafely(r, s)
    /\ UNCHANGED <<tasks, settable, now, interval, fields, client, logs, inflight, child>>

\* The broker answers a runner's GET /api/jobs/.
ServeJobs(r, s) ==
    /\ ticks[r][s].pc = "fetchAvailableJobs"
    /\ ticks[r][s].io = "request"
    /\ SetTick(r, s, [ticks[r][s] EXCEPT
            !.io = "response",
            !.msg = [ids |-> getJobs(tasks, ticks[r][s].msg.query)]])
    /\ UNCHANGED <<tasks, settable, now, interval, fields, client, logs, inflight, child>>

\* Runner.poll after fetchAvailableJobs: a failed request throws and no job
\* id returns, which both end the tick; else the first job is fetched.
PollFetched(r, s) ==
    /\ ticks[r][s].pc = "fetchAvailableJobs"
    /\ ticks[r][s].io = "response"
    /\ LET failed == "ids" \notin DOMAIN ticks[r][s].msg
           ids == IF failed THEN <<>> ELSE ticks[r][s].msg.ids
           jobId == IF ids = <<>> THEN Undef ELSE ids[1]
       IN IF jobId = Undef
          THEN EndTick(r, s)
          ELSE SetTick(r, s, Tick("fetchJobAndEtag", "request", Undef,
                                  [id |-> jobId], Undef))
    /\ UNCHANGED <<tasks, settable, now, interval, fields, client, logs, inflight, child>>

\* The broker answers a runner's GET /api/jobs/<id>.
ServeJob(r, s) ==
    /\ ticks[r][s].pc = "fetchJobAndEtag"
    /\ ticks[r][s].io = "request"
    /\ LET j == getTask(ticks[r][s].msg.id)
       IN IF j = 0
          THEN /\ SetTick(r, s, [ticks[r][s] EXCEPT
                        !.io = "response", !.msg = NotFound])
               /\ UNCHANGED tasks
          ELSE LET g == getJob(tasks[j])
               IN /\ tasks' = [tasks EXCEPT ![j] = g.task]
                  /\ SetTick(r, s, [ticks[r][s] EXCEPT
                        !.io = "response", !.msg = g.resp])
    /\ UNCHANGED <<settable, now, interval, fields, client, logs, inflight, child>>

\* Runner.poll after fetchJobAndEtag: the runner's fields are set and the
\* claim patch is sent through Runner.patchJob.  Each Date.now() read here
\* returns a later time than the one before (at most MaxTime reads).
PollClaim(r, s) ==
    /\ ticks[r][s].pc = "fetchJobAndEtag"
    /\ ticks[r][s].io = "response"
    /\ LET resp == ticks[r][s].msg
       IN IF resp.status # 200 \/ resp.etag = NoHeader
          THEN /\ EndTick(r, s)
               /\ UNCHANGED <<fields, now>>
          ELSE LET job == resp.body
               IN /\ now < MaxTime
                  /\ now' = now + 1
                  /\ fields' = [fields EXCEPT ![r] =
                        [etag |-> resp.etag, jobId |-> job["id"],
                         timeBegun |-> Num(now')]]
                  /\ SetTick(r, s, Tick("claim", "request", job,
                        patchRequest(job["id"], resp.etag,
                                     claimPatch(uuid(r), Num(now'))),
                        [id |-> job["id"], time_begun |-> Num(now')]))
    /\ UNCHANGED <<tasks, settable, interval, client, logs, inflight, child>>

\* The broker answers a runner's PATCH /api/jobs/<id> (claim or report).
ServePatch(r, s) ==
    /\ ticks[r][s].pc \in {"claim", "patchResult"}
    /\ ticks[r][s].io = "request"
    /\ LET req == ticks[r][s].msg
           j == getTask(req.id)
       IN IF j = 0
          THEN /\ SetTick(r, s, [ticks[r][s] EXCEPT
                        !.io = "response", !.msg = NotFound])
               /\ UNCHANGED tasks
          ELSE LET p == patchJob(settable, tasks[j],
                                 header(req, "If-Match"), req.patch)
               IN /\ tasks' = [tasks EXCEPT ![j] = p.task]
                  /\ SetTick(r, s, [ticks[r][s] EXCEPT
                        !.io = "response", !.msg = p.resp])
    /\ UNCHANGED <<settable, now, interval, fields, client, logs, inflight, child>>

\* Runner.putLog: an un-awaited PUT /api/jobs/<this.jobId>/log.
LogRequest(r, jobId, data) ==
    [kind |-> "putLog", runner |-> r, id |-> jobId, data |-> data]

\* The lines runBisect logs when it spawns the child.
Banner(r, at) == [k |-> "banner", runner |-> uuid(r), at |-> at]

\* A chunk the child of an execution wrote to a stream.
Chunk(stream, seq, of) == [k |-> "chunk", stream |-> stream, seq |-> seq, of |-> of]

\* A poll() that runs the job whatever the answer to its claim patch was.
PollRun_RunsAnyway(r, s) ==
    /\ ticks[r][s].pc = "claim"
    /\ ticks[r][s].io = "response"
    /\ SetTick(r, s, Tick("runBisect", "none", ticks[r][s].job, Undef,
                           ticks[r][s].claimed))
    /\ child' = [child EXCEPT ![r][s] = NoChild]
    /\ inflight' = inflight \cup
          {LogRequest(r, fields[r].jobId, Banner(r, Num(now)))}
    /\ UNCHANGED <<tasks, settable, now, interval, fields, client, logs>>

\* Runner.poll after the claim patch: a rejected patch throws (got rejects
\* on a 4xx status); an accepted one stores the new etag and runBisect
\* spawns the child and logs its banner.
PollRun(r, s) ==
    /\ ticks[r][s].pc = "claim"
    /\ ticks[r][s].io = "response"
    /\ LET resp == ticks[r][s].msg
           job == ticks[r][s].job
       IN IF resp.status # 200 \/ resp.etag = NoHeader
          THEN /\ EndTick(r, s)
               /\ UNCHANGED <<fields, inflight, child>>
          ELSE IF job["type"] = Str("bisect")
               THEN /\ fields' = [fields EXCEPT ![r].etag = resp.etag]
                    /\ SetTick(r, s, Tick("runBisect", "none", job, Undef,
                                           ticks[r][s].claimed))
                    /\ child' = [child EXCEPT ![r][s] = NoChild]
                    /\ inflight' = inflight \cup
                          {LogRequest(r, fields[r].jobId, Banner(r, Num(now)))}
               ELSE \* default: nothing runs; cleanup
                    /\ fields' = [fields EXCEPT ![r] = NoFields]
                    /\ EndTick(r, s)
                    /\ UNCHANGED <<inflight, child>>
    /\ UNCHANGED <<tasks, settable, now, interval, client, logs>>

\* The child closes: the 'close' handler classifies the run and
\* patchResult sends the report through Runner.patchJob.
ChildClose(r, s, outcome) ==
    /\ ticks[r][s].pc = "runBisect"
    /\ LET partial == closeResult(outcome)
           result == Result(uuid(r), partial.status, fields[r].timeBegun,
                            Num(now), partial.error, partial.bisect_range)
       IN SetTick(r, s, [ticks[r][s] EXCEPT
             !.pc = "patchResult", !.io = "request",
             !.msg = patchRequest(fields[r].jobId, fields[r].etag,
                                  resultPatch(result))])
    /\ UNCHANGED <<tasks, settable, now, interval, fields, client, logs, inflight, child>>

\* Runner.patchJob after the report: a rejected patch leaves runBisect's
\* promise unresolved for ever; an accepted one resolves it and poll cleans
\* up.
PollDone(r, s) ==
    /\ ticks[r][s].pc = "patchResult"
    /\ ticks[r][s].io = "response"
    /\ LET resp == ticks[r][s].msg
       IN IF resp.status # 200 \/ resp.etag = NoHeader
          THEN /\ SetTick(r, s, [ticks[r][s] EXCEPT
                     !.pc = "pending", !.io = "none", !.msg = Undef])
               /\ UNCHANGED fields
          ELSE /\ fields' = [fields EXCEPT ![r] = NoFields]
               /\ EndTick(r, s)
    /\ UNCHANGED <<tasks, settable, now, interval, client, logs, inflight, child>>


\* The broker answers a runner's PUT /api/jobs/<id>/log: Server.putLog
\* appends the text to the task's log if it knows the job.  Nothing in the
\* runner waits for the answer.
ServeLog(req) ==
    /\ req \in inflight
    /\ req.kind = "putLog"
    /\ LET j == getTask(req.id)
       IN logs' = IF j = 0 THEN logs
                  ELSE [logs EXCEPT ![j] = Append(@, req.data)]
    /\ inflight' = inflight \ {req}
    /\ UNCHANGED <<tasks, settable, now, interval, fields, ticks, client, child>>

\* The child writes a chunk to stdout or stderr: the 'data' handler sends it
\* with putLog, un-awaited.
MaxChunks == 2
Streams == {"stdout", "stderr"}
ChildData(r, s, stream) ==
    /\ ticks[r][s].pc = "runBisect"
    /\ ~child[r][s].error
    /\ child[r][s][stream] < MaxChunks
    /\ child' = [child EXCEPT ![r][s][stream] = @ + 1]
    /\ inflight' = inflight \cup
          {LogRequest(r, fields[r].jobId,
                      Chunk(stream, child[r][s][stream] + 1,
                            ticks[r][s].claimed))}
    /\ UNCHANGED <<tasks, settable, now, interval, fields, ticks, client, logs>>

\* The request the 'error' handler's patchResult sends: no poll() call
\* awaits it.  `of` keeps the claim of the execution it reports.
ErrorReport(r, of, req) ==
    [kind |-> "patch", runner |-> r, of |-> of, io |-> "request", msg |-> req]

\* The child emits 'error' (it could not be spawned or killed): the handler
\* reports a system_error through patchResult and resolves nothing; 'close'
\* is still to come.
ChildError(r, s) ==
    /\ ticks[r][s].pc = "runBisect"
    /\ ~child[r][s].error
    /\ child' = [child EXCEPT ![r][s].error = TRUE]
    /\ LET result == Result(uuid(r), Str("system_error"), fields[r].timeBegun,
                            Num(now), Str("spawnErr"), Undef)
       IN inflight' = inflight \cup
            {ErrorReport(r, ticks[r][s].claimed,
                         patchRequest(fields[r].jobId, fields[r].etag,
                                      resultPatch(result)))}
    /\ UNCHANGED <<tasks, settable, now, interval, fields, ticks, client, logs>>

\* The broker answers the PATCH of an 'error' handler's report.
ServeErrorReport(req) ==
    /\ req \in inflight
    /\ req.kind = "patch"
    /\ req.io = "request"
    /\ LET j == getTask(req.msg.id)
       IN IF j = 0
          THEN /\ inflight' = (inflight \ {req}) \cup
                     {[req EXCEPT !.io = "response", !.msg = NotFound]}
               /\ UNCHANGED tasks
          ELSE LET p == patchJob(settable, tasks[j],
                                 header(req.msg, "If-Match"), req.msg.patch)
               IN /\ tasks' = [tasks EXCEPT ![j] = p.task]
                  /\ inflight' = (inflight \ {req}) \cup
                       {[req EXCEPT !.io = "response", !.msg = p.resp]}
    /\ UNCHANGED <<settable, now, interval, fields, ticks, client, logs, child>>

\* Runner.patchJob after the 'error' handler's report: an accepted patch
\* stores the new etag; a rejected one throws with nothing to catch it.
ErrorReportDone(req) ==
    /\ req \in inflight
    /\ req.kind = "patch"
    /\ req.io = "response"
    /\ inflight' = inflight \ {req}
    /\ IF req.msg.status = 200 /\ req.msg.etag # NoHeader
       THEN fields' = [fields EXCEPT ![req.runner].etag = req.msg.etag]
       ELSE UNCHANGED fields
    /\ UNCHANGED <<tasks, settable, now, interval, ticks, client, logs, child>>

\* A request of a poll() call does not reach the broker: got rejects.
Failed == Response(0, Undef, NoHeader)
NetworkError(r, s) ==
    /\ ticks[r][s].pc \in {"fetchAvailableJobs", "fetchJobAndEtag", "claim",
                           "patchResult"}
    /\ ticks[r][s].io = "request"
    /\ SetTick(r, s, [ticks[r][s] EXCEPT !.io = "response", !.msg = Failed])
    /\ UNCHANGED <<tasks, settable, now, interval, fields, client,
                   logs, inflight, child>>

\* A 200 response reaches the runner without its ETag header.
EtagStripped(r, s) ==
    /\ ticks[r][s].pc \in {"fetchJobAndEtag", "claim", "patchResult"}
    /\ ticks[r][s].io = "response"
    /\ ticks[r][s].msg.status = 200
    /\ ticks[r][s].msg.etag # NoHeader
    /\ SetTick(r, s, [ticks[r][s] EXCEPT !.msg.etag = NoHeader])
    /\ UNCHANGED <<tasks, settable, now, interval, fields, client,
                   logs, inflight, child>>

MaxLog == 3
ClientText(c) == [k |-> "text", client |-> c]

\* A log append that is refused while the job is claimed.
ClientPutLog_Gated(c, j) ==
    /\ \A i \in JobIds : Len(logs[i]) < MaxLog
    /\ IF getTask(IdOf(j)) = 0 \/ tasks[j]["current"] # Undef
       THEN /\ client' = [client EXCEPT ![c] = Held(j, Undef, Undef, 412, Undef)]
            /\ UNCHANGED logs
       ELSE /\ logs' = [logs EXCEPT ![j] = Append(@, ClientText(c))]
            /\ client' = [client EXCEPT ![c] = Held(j, Undef, Undef, 200, Undef)]
    /\ UNCHANGED <<tasks, settable, now, interval, fields, ticks, inflight, child>>

\* PUT /api/jobs/<j>/log from an API client: Server.putLog.
ClientPutLog(c, j) ==
    /\ \A i \in JobIds : Len(logs[i]) < MaxLog
    /\ IF getTask(IdOf(j)) = 0
       THEN /\ client' = [client EXCEPT ![c] = Held(j, Undef, Undef, 404, Undef)]
            /\ UNCHANGED logs
       ELSE /\ logs' = [logs EXCEPT ![j] = Append(@, ClientText(c))]
            /\ client' = [client EXCEPT ![c] = Held(j, Undef, Undef, 200, Undef)]
    /\ UNCHANGED <<tasks, settable, now, interval, fields, ticks, inflight, child>>

\* buildLog(task): the rendered log holds the appended chunks in order.
buildLog(j) == [k |-> "log", text |-> logs[j]]

\* GET /log/<j> from an API client: Server.getLog.
ClientGetLog(c, j) ==
    /\ IF getTask(IdOf(j)) = 0
       THEN client' = [client EXCEPT ![c] = Held(j, Undef, Undef, 404, Undef)]
       ELSE client' = [client EXCEPT ![c] =
                          Held(j, Undef, Undef, 200, buildLog(j))]
    /\ UNCHANGED <<tasks, settable, now, interval, fields, ticks, logs,
                   inflight, child>>

\* GET /api/jobs/?<query> from an API client.
ClientList(c, query) ==
    /\ client' = [client EXCEPT ![c] =
                     Held(0, Query(query), Undef, 200,
                          Arr(getJobs(tasks, query)))]
    /\ UNCHANGED <<tasks, settable, now, interval, fields, ticks, logs, inflight, child>>

\* The inputs Server.filter is checked on: up to MaxCandidates tasks, each
\* with a platform that is absent, 'mac', 'win' or '', claimed or not; and
\* queries of up to two keys.
MaxCandidates == 3
CandidatePlatforms == {Undef, Str("mac"), Str("win"), Str("")}
CandidateCurrents == {Undef, Current(UuidOf(1), Num(1))}
Candidate(id, p, cur) == [createBisectTask(id, p) EXCEPT !["current"] = cur]
CandidateLists ==
    UNION { { [i \in 1..n |-> Candidate(i, ps[i], cs[i])] :
                ps \in [1..n -> CandidatePlatforms],
                cs \in [1..n -> CandidateCurrents] } :
            n \in 0..MaxCandidates }
QueryKeys ==
    { <<"platform">>, <<"platform", "!">>,
      <<"current", ".", "runner">>, <<"current", ".", "runner", "!">> }
QueryValues ==
    { <<"mac">>, <<"mac", ",", "win">>, <<"undefined">>, <<"mac", ",">>, <<>> }
QueryEntries == {QueryEntry(k, v) : k \in QueryKeys, v \in QueryValues}
\* A query of one key, or of a platform key and a current.runner key.
Queries ==
    {<<e>> : e \in QueryEntries}
      \cup {q \in {<<e, f>> : e \in QueryEntries, f \in QueryEntries} :
               q[1].key[1] = "platform" /\ q[2].key[1] = "current"}

InitFilter ==
    /\ tasks \in CandidateLists
    /\ settable = {"bot_client_data"}
    /\ now = 0
    /\ interval = [r \in Runners |-> FALSE]
    /\ fields = [r \in Runners |-> NoFields]
    /\ ticks = [r \in Runners |-> [s \in Slots |-> Idle]]
    /\ client = [c \in Clients |-> NoResponse]
    /\ logs = [j \in JobIds |-> <<>>]
    /\ inflight = {}
    /\ child = [r \in Runners |-> [s \in Slots |-> NoChild]]

\* ----------------------------------------------------------------- steps
\* A step of clients C with patches from P.
ClientStep(C, P) ==
    \/ \E c \in C : ClientList(c, availableJobsQuery("linux"))
    \/ \E c \in C, j \in JobIds : ClientGet(c, j)
    \/ \E c \in C, j \in JobIds : \E e \in ClientIfMatch(c, j) :
          \E patch \in P : ClientPatch(c, j, e, patch)

\* A step of a poll() call in slot S of a runner in R, or of the broker
\* answering it.
RunnerStep(R, S) ==
    \/ \E r \in R, s \in S : Start(r, s)
    \/ \E r \in R, s \in S : TimerFires(r, s)
    \/ \E r \in R, s \in S : ServeJobs(r, s)
    \/ \E r \in R, s \in S : PollFetched(r, s)
    \/ \E r \in R, s \in S : ServeJob(r, s)
    \/ \E r \in R, s \in S : PollClaim(r, s)
    \/ \E r \in R, s \in S : ServePatch(r, s)
    \/ \E r \in R, s \in S : PollRun(r, s)
    \/ \E r \in R, s \in S, o \in ChildOutcomes : ChildClose(r, s, o)
    \/ \E r \in R, s \in S : PollDone(r, s)
    \/ \E req \in inflight : req.runner \in R /\ ServeLog(req)

Post == \E p \in JobPlatforms : PostJob(p)

\* The whole system.
Next == Post \/ ClientStep(Clients, ClientPatches) \/ RunnerStep(Runners, Slots)
Spec == Init /\ [][Next]_vars

\* The broker and its API clients.
NextBroker == Post \/ ClientStep(Clients, ClientPatches)
SpecBroker == Init /\ [][NextBroker]_vars

\* Several runners, each with one poll() call at a time.
NextRace == Post \/ RunnerStep(Runners, {1})
SpecRace == Init /\ [][NextRace]_vars

\* One runner whose timer fires while earlier poll() calls are under way.
NextReentry == Post \/ RunnerStep({NumRunners}, Slots)
SpecReentry == Init /\ [][NextReentry]_vars

\* One runner with one poll() call at a time, and an API client that
\* patches the fields of the protocol without precondition.
SystemPatches == {<<removeCurrent>>, <<moveCurrent>>, <<moveId>>}
NextSystem ==
    \/ Post
    \/ RunnerStep({NumRunners}, {1})
    \/ \E j \in JobIds, patch \in SystemPatches :
          ClientPatch(1, j, NoHeader, patch)
SpecSystem == Init /\ [][NextSystem]_vars

\* Server.filter on the inputs above: one list request with any query.
NextFilter == \E q \in Queries : client[1] = NoResponse /\ ClientList(1, q)
SpecFilter == InitFilter /\ [][NextFilter]_vars

\* Several runners, and a client that moves /current into its own data.
NextUnclaim ==
    \/ Post
    \/ RunnerStep(Runners, {1})
    \/ \E j \in JobIds : ClientPatch(1, j, NoHeader, <<moveCurrent>>)
SpecUnclaim == Init /\ [][NextUnclaim]_vars

\* One runner with one poll() call at a time, and a client that moves
\* /history into its own data.
NextHistory ==
    \/ Post
    \/ RunnerStep({NumRunners}, {1})
    \/ \E j \in JobIds : ClientPatch(1, j, NoHeader, <<moveHistory>>)
SpecHistory == Init /\ [][NextHistory]_vars

\* One runner with one poll() call at a time, whose requests can fail;
\* the runner and the broker keep taking their steps.
NextLive ==
    \/ Post
    \/ RunnerStep({NumRunners}, {1})
    \/ NetworkError(NumRunners, 1)
SpecLive ==
    Init /\ [][NextLive]_vars /\ WF_vars(RunnerStep({NumRunners}, {1}))

\* One runner with one poll() call at a time, whose requests can fail and
\* whose responses can come without ETag.
NextFaults ==
    \/ Post
    \/ RunnerStep({NumRunners}, {1})
    \/ NetworkError(NumRunners, 1)
    \/ EtagStripped(NumRunners, 1)
SpecFaults == Init /\ [][NextFaults]_vars

\* One runner with one poll() call at a time, whose child writes to its
\* streams.
NextStreams ==
    \/ Post
    \/ RunnerStep({NumRunners}, {1})
    \/ \E stream \in Streams : ChildData(NumRunners, 1, stream)
SpecStreams == Init /\ [][NextStreams]_vars

\* One runner with one poll() call at a time, and an API client that
\* appends to and reads the log.
NextLog ==
    \/ Post
    \/ RunnerStep({NumRunners}, {1})
    \/ \E j \in JobIds : ClientPutLog(1, j)
    \/ \E j \in JobIds : ClientGetLog(1, j)
SpecLog == Init /\ [][NextLog]_vars

\* One runner with one poll() call at a time, whose child can emit 'error'
\* before it closes.
NextChild ==
    \/ Post
    \/ RunnerStep({NumRunners}, {1})
    \/ ChildError(NumRunners, 1)
    \/ \E req \in inflight : ServeErrorReport(req)
    \/ \E req \in inflight : ErrorReportDone(req)
SpecChild == Init /\ [][NextChild]_vars

\* ---------------------------------------------------------------- claims
\* The poll() calls whose claim patch the broker accepted and whose report
\* it has not accepted yet.
Executing(r, s) == ticks[r][s].pc \in {"runBisect", "patchResult", "pending"}

\* Both runners' claim patches for the same fetched, unclaimed job have been
\* answered.
BothAnswered(r1, s1, r2, s2) ==
    /\ r1 # r2
    /\ ticks[r1][s1].pc = "claim" /\ ticks[r1][s1].io = "response"
    /\ ticks[r2][s2].pc = "claim" /\ ticks[r2][s2].io = "response"
    /\ ticks[r1][s1].job = ticks[r2][s2].job
    /\ ticks[r1][s1].job["current"] = Undef

\* C1: when two runners fetched the same unclaimed job (same body, so the
\* same etag) and both claim patches have been answered, one answer is 200
\* and the other 412, and the job's current.runner is the uuid of the
\* runner that got 200.  Stated for the policy that lets a patch write
\* /current, the one under which a runner can claim at all.
C1_ExactlyOneClaimSucceeds ==
    \A r1 \in Runners, r2 \in Runners, s1 \in Slots, s2 \in Slots :
        ("current" \in settable /\ BothAnswered(r1, s1, r2, s2)) =>
            LET j == getTask(ticks[r1][s1].job["id"])
            IN /\ ticks[r1][s1].msg.status \in {200, 412}
               /\ ticks[r2][s2].msg.status \in {200, 412}
               /\ ticks[r1][s1].msg.status # ticks[r2][s2].msg.status
               /\ ticks[r1][s1].msg.status = 200 =>
                      tasks[j]["current"].runner = uuid(r1)

\* The etag of the body a GET of task j would return now.
CurrentEtag(j) == getTaskBody(tasks[j]).etag

\* C2: a client PATCH whose If-Match is not the etag of the job's current
\* visible body (the client got it with a 200 and the body has changed
\* since) is answered 412 and leaves the task as it was.
C2_StaleIfMatchRejected ==
    [][\A c \in Clients, j \in JobIds :
          ( /\ getTask(IdOf(j)) # 0
            /\ client[c].job = j
            /\ client[c].status = 200
            /\ client[c].etag # NoHeader
            /\ client[c].etag # CurrentEtag(j)
            /\ \E patch \in ClientPatches :
                   ClientPatch(c, j, client[c].etag, patch) )
          => /\ client'[c].status = 412
             /\ tasks'[j] = tasks[j]]_vars

\* A patch with a mutating operation on a field canSet refuses.
HasDisallowed(patch) ==
    \E i \in 1..Len(patch) :
        /\ patch[i].op \in MutatingOps
        /\ ~canSet(settable, patch[i].path[1], patch[i].value)

\* The If-Match precondition of Server.patchJob lets the request through.
PreconditionPasses(j, if_etag) ==
    if_etag = NoHeader \/ if_etag = tasks[j]["etag"]

\* C3: a client PATCH that gets past the precondition and holds a
\* disallowed operation, wherever in the batch, is answered 400 and leaves
\* the task exactly as it was.
C3_BatchAllOrNothing ==
    [][\A c \in Clients, j \in JobIds :
          \A e \in ClientIfMatch(c, j), patch \in ClientPatches :
              ( /\ getTask(IdOf(j)) # 0
                /\ PreconditionPasses(j, e)
                /\ HasDisallowed(patch)
                /\ ClientPatch(c, j, e, patch) )
              => /\ client'[c].status = 400
                 /\ tasks'[j] = tasks[j]]_vars

\* The job ids whose claim is held by a poll() call of runner r.
ClaimsHeld(r) == {ticks[r][s].claimed.id : s \in {h \in Slots : Executing(r, h)}}

\* C4: a runner never has two poll() calls under way, and never holds
\* claims on two jobs.
C4_OneTickAtATime ==
    \A r \in Runners :
        /\ Cardinality({s \in Slots : ticks[r][s].pc # "idle"}) <= 1
        /\ Cardinality(ClaimsHeld(r)) <= 1

\* The "available for claim" condition of the data model.
Available(task, p) ==
    /\ task["current"] = Undef
    /\ task["last"] = Undef
    /\ task["type"] = Str("bisect")
    /\ task["platform"] \in {Undef, Str(p)}

\* Some poll() call holds an accepted, unreported claim on task j.
BeingRun(j) ==
    \E r \in Runners, s \in Slots :
        Executing(r, s) /\ ticks[r][s].claimed.id = IdOf(j)

\* C5: every id the broker returns to a runner's list request names a task
\* that is available for claim for that runner's platform, and no task
\* that a runner has claimed and not yet reported is offered.
C5_OnlyAvailableJobsOffered ==
    [][\A r \in Runners, s \in Slots :
          ServeJobs(r, s) =>
              \A i \in 1..Len(ticks'[r][s].msg.ids) :
                  LET j == getTask(ticks'[r][s].msg.ids[i])
                  IN /\ j # 0
                     /\ Available(tasks[j], platform(r))
                     /\ ~BeingRun(j)]_vars

\* The Result a report request carries.
ReportedResult(req) == req.patch[1].value

\* C6: the broker handles a runner's report as one mutation: either it
\* answers 200 and the task has the Result appended to history, last set to
\* that Result and current removed, with last the final entry of history,
\* or it answers an error and the task is as it was.
C6_ReportIsOneMutation ==
    [][\A r \in Runners, s \in Slots :
          (ServePatch(r, s) /\ ticks[r][s].pc = "patchResult") =>
              LET req == ticks[r][s].msg
                  j == getTask(req.id)
                  result == ReportedResult(req)
                  status == ticks'[r][s].msg.status
              IN IF j = 0
                 THEN status = 404 /\ tasks' = tasks
                 ELSE \/ /\ status = 200
                         /\ IsArray(tasks[j]["history"])
                         /\ tasks'[j] =
                              [tasks[j] EXCEPT
                                 !["history"] = Arr(Append(@.items, result)),
                                 !["last"] = result,
                                 !["current"] = Undef]
                         /\ tasks'[j]["last"] =
                              tasks'[j]["history"].items[
                                  Len(tasks'[j]["history"].items)]
                      \/ /\ status \in {400, 412}
                         /\ tasks'[j] = tasks[j]]_vars

\* A report has been accepted: the answer is on its way to the runner and
\* the task shows the Result as last and as the end of history, with no
\* current.
C6_Witness ==
    \E r \in Runners, s \in Slots, j \in 1..Len(tasks) :
        /\ ticks[r][s].pc = "patchResult"
        /\ ticks[r][s].io = "response"
        /\ ticks[r][s].msg.status = 200
        /\ tasks[j]["current"] = Undef
        /\ tasks[j]["last"].k = "Result"
        /\ tasks[j]["last"].runner = uuid(r)
        /\ Len(tasks[j]["history"].items) > 0

\* The classification the close handler is to make of a child outcome.
Classified(outcome, result) ==
    /\ outcome.parse = "success" =>
          /\ result.status = Str("success")
          /\ result.bisect_range = Range("goodVersion", "badVersion")
          /\ result.error = Undef
    /\ (outcome.parse = "failure" /\ outcome.exitCode = Num(1)) =>
          result.status = Str("test_error")
    /\ (outcome.parse = "failure" /\ outcome.exitCode # Num(1)) =>
          result.status = Str("system_error")
    /\ outcome.parse = "throws" =>
          /\ result.status = Str("system_error")
          /\ result.error = Str("parseErr")

\* C7: the Result a runner reports when its child closes is classified from
\* the parser's outcome and the exit code, carries the runner's uuid, and
\* carries as time_begun the time_begun of the claim this poll() call made.
C7_ResultOfClose ==
    [][\A r \in Runners, s \in Slots, o \in ChildOutcomes :
          ChildClose(r, s, o) =>
              LET result == ReportedResult(ticks'[r][s].msg)
              IN /\ Classified(o, result)
                 /\ result.runner = uuid(r)
                 /\ result.time_begun = ticks[r][s].claimed.time_begun]_vars


\* The alternatives of a query value: its maximal comma-free stretches.
Alternatives(str) ==
    { SubSeq(str, a, b) : a \in 1..(Len(str) + 1), b \in 0..Len(str) } \cap
    { SubSeq(str, ab[1], ab[2]) :
        ab \in { x \in (1..(Len(str) + 1)) \X (0..Len(str)) :
                   /\ x[1] <= x[2] + 1
                   /\ \A i \in x[1]..x[2] : str[i] # ","
                   /\ x[1] = 1 \/ str[x[1] - 1] = ","
                   /\ x[2] = Len(str) \/ str[x[2] + 1] = "," } }

\* The field names of a key, without the dots and the '!'.
FieldPath(key) ==
    LET IsName(a) == a \notin {".", "!"}
    IN SelectSeq(key, IsName)

\* The value a candidate has at a path of one or two field names; Undef
\* when the field or the field above it is absent.
Resolved(candidate, path) ==
    LET top == candidate[path[1]]
    IN IF Len(path) = 1 THEN top
       ELSE IF top = Undef THEN Undef
       ELSE top[path[2]]

\* The resolved value equals an alternative: a string is that string, an
\* absent value is the string "undefined".
EqualsAlternative(v, alt) ==
    LET str == IF alt = <<>> THEN "" ELSE alt[1]
    IN \/ v = Undef /\ str = "undefined"
       \/ v # Undef /\ v.k = "string" /\ v.s = str

\* The candidate passes the key: any alternative without '!', none with it.
PassesKey(candidate, entry, alts) ==
    LET v == Resolved(candidate, FieldPath(entry.key))
    IN IF entry.key[Len(entry.key)] = "!"
       THEN \A alt \in alts : ~EqualsAlternative(v, alt)
       ELSE \E alt \in alts : EqualsAlternative(v, alt)

\* The ids of the tasks that pass every key of the query, in the broker's
\* order; the alternatives of a value are all of them or the non-empty ones.
PassingIds(tasklist, query, nonEmptyOnly) ==
    LET Alts(entry) == IF nonEmptyOnly
                       THEN Alternatives(entry.value) \ {<<>>}
                       ELSE Alternatives(entry.value)
        Keep(task) == \A i \in 1..Len(query) :
                          PassesKey(task, query[i], Alts(query[i]))
        kept == SelectSeq(tasklist, Keep)
    IN [i \in 1..Len(kept) |-> kept[i]["id"]]

\* The jobs A{platform: mac}, B{platform: win}, C{no platform}.
JobsABC ==
    << Candidate(1, Str("mac"), Undef), Candidate(2, Str("win"), Undef),
       Candidate(3, Undef, Undef) >>

\* The answer client c holds to the list request with this query.
Listed(c, query) ==
    client[c].query = Query(query) /\ client[c].status = 200

\* The four example queries give {A}, {A,B}, {B,C}, {C}.
ExamplesHold(c) ==
    tasks = JobsABC =>
      /\ Listed(c, <<QueryEntry(<<"platform">>, <<"mac">>)>>)
           => client[c].body = Arr(<<IdOf(1)>>)
      /\ Listed(c, <<QueryEntry(<<"platform">>, <<"mac", ",", "win">>)>>)
           => client[c].body = Arr(<<IdOf(1), IdOf(2)>>)
      /\ Listed(c, <<QueryEntry(<<"platform", "!">>, <<"mac">>)>>)
           => client[c].body = Arr(<<IdOf(2), IdOf(3)>>)
      /\ Listed(c, <<QueryEntry(<<"platform">>, <<"undefined">>)>>)
           => client[c].body = Arr(<<IdOf(3)>>)

\* C8 (as stated): the answer to a list request over unchanged tasks holds
\* the ids of the candidates that, for every key, equal at least one
\* (without '!') or none (with '!') of the comma-separated alternatives of
\* the value; the four examples hold.
C8_AnyAlternative ==
    \A c \in Clients :
        /\ client[c].query # Undef =>
              client[c].body =
                  Arr(PassingIds(tasks, client[c].query.entries, FALSE))
        /\ ExamplesHold(c)

\* C8 (amended): the same, with the non-empty alternatives of the value:
\* an empty alternative ("mac," or an empty value) is dropped and equals
\* no field, not even an empty string.
C8_NonEmptyAlternatives ==
    \A c \in Clients :
        /\ client[c].query # Undef =>
              client[c].body =
                  Arr(PassingIds(tasks, client[c].query.entries, TRUE))
        /\ ExamplesHold(c)

\* The list for platform!=mac of the jobs A, B, C has been answered with
\* B and C.
C8_Witness ==
    /\ tasks = JobsABC
    /\ Listed(1, <<QueryEntry(<<"platform", "!">>, <<"mac">>)>>)
    /\ client[1].body = Arr(<<IdOf(2), IdOf(3)>>)

\* The fields the protocol keeps for itself.
ReservedFields == {"current", "last", "history", "id", "etag"}

\* Every mutating operation of the patch writes a reserved field.
WritesReservedOnly(patch) ==
    /\ \E i \in 1..Len(patch) : patch[i].op \in MutatingOps
    /\ \A i \in 1..Len(patch) :
          patch[i].op \in MutatingOps /\ patch[i].path[1] \in ReservedFields

\* C9: a client PATCH (past the precondition) that writes reserved fields
\* is answered 400 and changes nothing, while a runner's claim or report
\* patch for a task the broker holds is answered 200.
C9_ReservedForTheProtocol ==
    [][ /\ \A c \in Clients, j \in JobIds :
              \A e \in ClientIfMatch(c, j), patch \in ClientPatches :
                  ( /\ getTask(IdOf(j)) # 0
                    /\ PreconditionPasses(j, e)
                    /\ WritesReservedOnly(patch)
                    /\ ClientPatch(c, j, e, patch) )
                  => /\ client'[c].status = 400
                     /\ tasks'[j] = tasks[j]
        /\ \A r \in Runners, s \in Slots :
              (ServePatch(r, s) /\ getTask(ticks[r][s].msg.id) # 0) =>
                  ticks'[r][s].msg.status = 200 ]_vars

\* C10: the task the broker holds under an identifier has that id.
C10_IdNeverChanges ==
    \A j \in 1..Len(tasks) : tasks[j]["id"] = IdOf(j)

\* The entries of a task's history; none when it has no history array.
HistoryItems(task) ==
    IF IsArray(task["history"]) THEN task["history"].items ELSE <<>>

IsPrefix(a, b) == Len(a) <= Len(b) /\ SubSeq(b, 1, Len(a)) = a

\* C11: in every step the history a task had is a prefix of the history it
\* has afterwards: no entry is removed, replaced or reordered.
C11_HistoryAppendOnly ==
    [][\A j \in 1..Len(tasks) :
          IsPrefix(HistoryItems(tasks[j]), HistoryItems(tasks'[j]))]_vars

\* The task shows a Result of runner r as last and as the end of history,
\* and no current.
ReportRecorded(r, j) ==
    /\ j \in 1..Len(tasks)
    /\ tasks[j]["current"] = Undef
    /\ tasks[j]["last"].k = "Result"
    /\ tasks[j]["last"].runner = uuid(r)
    /\ HistoryItems(tasks[j]) # <<>>
    /\ HistoryItems(tasks[j])[Len(HistoryItems(tasks[j]))] = tasks[j]["last"]

\* C12: a poll() call whose claim of job j was accepted leads to a state
\* where the job shows the runner's Result and the call has returned.
C12_ClaimedIsReported ==
    \A r \in Runners, s \in Slots, j \in JobIds :
        (ticks[r][s].pc = "runBisect" /\ ticks[r][s].claimed.id = IdOf(j))
            ~> (ticks[r][s].pc = "idle" /\ ReportRecorded(r, j))

\* The answer to a request of poll() before its claim is made is a failure:
\* a failed list, get or claim request, or an answer without ETag.
PreClaimFailure(r, s) ==
    /\ ticks[r][s].io = "response"
    /\ \/ /\ ticks[r][s].pc = "fetchAvailableJobs"
          /\ "ids" \notin DOMAIN ticks[r][s].msg
       \/ /\ ticks[r][s].pc \in {"fetchJobAndEtag", "claim"}
          /\ \/ ticks[r][s].msg.status # 200
             \/ ticks[r][s].msg.etag = NoHeader

\* poll() goes on after an answer.
PollStep(r, s) == PollFetched(r, s) \/ PollClaim(r, s) \/ PollRun(r, s)

\* C13: when poll() meets a failure before its claim is made, the call ends,
\* the timer stays armed (so it starts the next tick), and the broker's
\* state is left alone;
\* and a tick the timer starts begins with the list request.
C13_FailureBeforeClaimIsSwallowed ==
    [][\A r \in Runners, s \in Slots :
          /\ (PreClaimFailure(r, s) /\ PollStep(r, s)) =>
                /\ ticks'[r][s] = Idle
                /\ interval'[r]
                /\ tasks' = tasks
                /\ inflight' = inflight
          /\ TimerFires(r, s) =>
                /\ ticks'[r][s].pc = "fetchAvailableJobs"
                /\ ticks'[r][s].io = "request"]_vars

\* A poll() call has thrown after it set this.jobId (its claim failed): the
\* cleanup was skipped, the call is over and the timer is armed.
C13_Witness ==
    \E r \in Runners :
        /\ interval[r]
        /\ \A s \in Slots : ticks[r][s] = Idle
        /\ fields[r].jobId # Undef

\* The broker has refused the claim patch of a poll() call.
RejectedClaim(r, s) ==
    /\ ticks[r][s].pc = "claim"
    /\ ticks[r][s].io = "response"
    /\ ticks[r][s].msg.status \in {400, 412}

\* C16: when the claim patch is refused the poll() call ends: no child is
\* spawned, no log append and no report is sent, the task is left alone;
\* and a claim patch is only ever sent by a poll() call that has just
\* listed and fetched the job.
C16_RejectedClaimAborts ==
    [][\A r \in Runners, s \in Slots :
          /\ (RejectedClaim(r, s) /\ PollRun(r, s)) =>
                /\ ticks'[r][s] = Idle
                /\ child' = child
                /\ inflight' = inflight
                /\ tasks' = tasks
                /\ logs' = logs
          /\ ( /\ ticks'[r][s] # ticks[r][s]
               /\ ticks'[r][s].pc = "claim"
               /\ ticks'[r][s].io = "request" ) =>
                ticks[r][s].pc = "fetchJobAndEtag"]_vars

\* A claim was refused with 400 and the poll() call is over: the job is
\* unclaimed, nothing was logged and nothing is in flight.
C16_Witness ==
    \E r \in Runners, j \in 1..Len(tasks) :
        /\ settable = {"bot_client_data"}
        /\ \A s \in Slots : ticks[r][s] = Idle
        /\ fields[r].jobId = IdOf(j)
        /\ tasks[j]["current"] = Undef
        /\ inflight = {}
        /\ logs[j] = <<>>

\* The chunks of a log or of a rendered log.
Holds(text, data) == \E i \in 1..Len(text) : text[i] = data

\* C14: a PUT log on a job the broker holds is answered 200 and appends the
\* text, whatever current, last and etag of the task are and without
\* touching the task; a GET log is answered 200 with a text that holds
\* every chunk appended so far.
C14_LogIsUnconditional ==
    [][\A c \in Clients, j \in JobIds :
          /\ (ClientPutLog(c, j) /\ getTask(IdOf(j)) # 0) =>
                /\ client'[c].status = 200
                /\ logs'[j] = Append(logs[j], ClientText(c))
                /\ tasks' = tasks
          /\ (ClientGetLog(c, j) /\ getTask(IdOf(j)) # 0) =>
                /\ client'[c].status = 200
                /\ \A i \in 1..Len(logs[j]) :
                      Holds(client'[c].body.text, logs[j][i])]_vars

\* A client has read, from the log of a job that is claimed and has no
\* Result yet, the text it appended.
C14_Witness ==
    \E c \in Clients, j \in 1..Len(tasks) :
        /\ tasks[j]["current"] # Undef
        /\ tasks[j]["last"] = Undef
        /\ client[c].job = j
        /\ client[c].status = 200
        /\ client[c].body # Undef
        /\ client[c].body.k = "log"
        /\ Holds(client[c].body.text, ClientText(c))

\* C17: in the log of a job, two chunks that one child wrote to the same
\* stream stand in the order in which the child wrote them.
C17_StreamIsOrdered ==
    \A j \in JobIds :
        \A a \in 1..Len(logs[j]), b \in 1..Len(logs[j]) :
            ( /\ a < b
              /\ logs[j][a].k = "chunk"
              /\ logs[j][b].k = "chunk"
              /\ logs[j][a].of = logs[j][b].of
              /\ logs[j][a].stream = logs[j][b].stream )
            => logs[j][a].seq < logs[j][b].seq

\* Client c's GET or PATCH of job j is answered 200.
Answered200(c, j) ==
    /\ client'[c].status = 200
    /\ \/ ClientGet(c, j)
       \/ \E e \in ClientIfMatch(c, j), patch \in ClientPatches :
              ClientPatch(c, j, e, patch)

\* C15: after every GET or PATCH that is answered 200 the etag the broker
\* keeps for the task is the etag of the task's visible body; and a PATCH
\* whose If-Match is the ETag of the client's last 200 answer, which still
\* is the etag of the visible body, is not answered 412.
C15_StoredEtagIsCurrent ==
    [][\A c \in Clients, j \in JobIds :
          getTask(IdOf(j)) # 0 =>
            /\ Answered200(c, j) =>
                  tasks'[j]["etag"] = getTaskBody(tasks'[j]).etag
            /\ ( /\ client[c].job = j
                 /\ client[c].status = 200
                 /\ client[c].etag # NoHeader
                 /\ client[c].etag = CurrentEtag(j)
                 /\ \E patch \in ClientPatches :
                        ClientPatch(c, j, client[c].etag, patch) )
               => client'[c].status # 412]_vars

\* a is b with some elements left out.
RECURSIVE IsSubsequence(_, _)
IsSubsequence(a, b) ==
    IF a = <<>> THEN TRUE
    ELSE IF b = <<>> THEN FALSE
    ELSE IF Head(a) = Head(b) THEN IsSubsequence(Tail(a), Tail(b))
    ELSE IsSubsequence(a, Tail(b))

Reverse(seq) == [i \in 1..Len(seq) |-> seq[Len(seq) + 1 - i]]

\* C18: a list request leaves the tasks as they were, its answer is the
\* ids of the tasks with some left out, in the tasks' order, and it is the
\* answer the same query gives with its keys in the other order.
C18_FilterIsPure ==
    [][\A c \in Clients :
          (client'[c] # client[c] /\ client'[c].query # Undef) =>
              LET query == client'[c].query.entries
                  ids == [i \in 1..Len(tasks) |-> tasks[i]["id"]]
              IN /\ tasks' = tasks
                 /\ IsSubsequence(client'[c].body.items, ids)
                 /\ client'[c].body.items = getJobs(tasks, Reverse(query))]_vars

\* A query of two keys has been answered with some, not all, of three
\* tasks.
C18_Witness ==
    /\ Len(tasks) = 3
    /\ client[1].query # Undef
    /\ Len(client[1].query.entries) = 2
    /\ client[1].body.items # <<>>
    /\ Len(client[1].body.items) < 3

\* C19: the report a poll() call sends when its child closes goes to the
\* job that call claimed and carries the time_begun of its claim, and the
\* log append it sends when it spawns the child goes to that job, whatever
\* other poll() calls of the runner have done in between.
C19_ReportGoesToTheClaimedJob ==
    [][\A r \in Runners, s \in Slots :
          /\ \A o \in ChildOutcomes :
                ChildClose(r, s, o) =>
                    /\ ticks'[r][s].msg.id = ticks[r][s].claimed.id
                    /\ ReportedResult(ticks'[r][s].msg).time_begun =
                           ticks[r][s].claimed.time_begun
          /\ (PollRun(r, s) /\ ticks'[r][s].pc = "runBisect") =>
                \A req \in inflight' \ inflight :
                    req.id = ticks[r][s].claimed.id]_vars

\* C20: the history of a job holds at most one Result per claim: no two
\* entries come from the same runner with the same time_begun.
C20_OneResultPerClaim ==
    \A j \in 1..Len(tasks) :
        \A a \in 1..Len(HistoryItems(tasks[j])),
           b \in 1..Len(HistoryItems(tasks[j])) :
            ( /\ a < b
              /\ HistoryItems(tasks[j])[a].runner =
                     HistoryItems(tasks[j])[b].runner )
            => HistoryItems(tasks[j])[a].time_begun #
                   HistoryItems(tasks[j])[b].time_begun

====
